---- MODULE Spec2Model ----
(***************************************************************************)
(* Cargo load optimizer of app.py: optimize_cargo (multi-pass admission,   *)
(* optimal-band guard, auto top-off, plan summary), find_balanced_position *)
(* (quadrant-ordered first-fit grid search), boxes_overlap,                *)
(* calculate_fuel_efficiency, and the request pool handlers                *)
(* handle_requests and clear_requests.                                     *)
(*                                                                         *)
(* Specifications.  Spec, SpecScenario and SpecBand run one optimize call  *)
(* on a pool and a container drawn from different input sets.  SpecService *)
(* runs submissions and clears, one handler at a time.  SpecFuel and       *)
(* SpecOverlap call calculate_fuel_efficiency and boxes_overlap on their   *)
(* own, on arguments drawn from bounded sets.  SpecSearch runs one         *)
(* optimize call on pools of small items in containers where the grid      *)
(* search visits several origins per quadrant.  SpecConcurrent runs two    *)
(* submissions at once, each in its own handler thread (handlers), with    *)
(* the threads switching between any two accesses of the module globals.   *)
(*                                                                         *)
(* Units.  The source computes in metres, kilograms and cubic metres with  *)
(* floating point numbers.  The model computes the same quantities exactly *)
(* in integers: lengths and positions in millimetres, weights in           *)
(* kilograms, volumes in cubic centimetres.  Every catalogue dimension is  *)
(* a multiple of 10 mm, and container dimensions are taken as multiples of *)
(* 10 mm, so halves (box centres, midplanes) are whole millimetres.        *)
(* Percentages rounded to two decimals are kept in hundredths of a         *)
(* percent, the centre of gravity in hundredths of a metre.                *)
(*                                                                         *)
(* Floating point.  Where two boxes, or a box and a wall, are in exact     *)
(* contact the source's comparison can go either way by one unit in the    *)
(* last place; the model compares exactly.  The containers explored here   *)
(* are ones for which the source, run on every explored pool, returns the  *)
(* same packed items at the same positions and the same unpacked items as  *)
(* the model.  round(.) is modelled as round-half-even on the exact value; *)
(* on an exact decimal tie the source rounds its binary approximation.     *)
(*                                                                         *)
(* Set order.  list(set(...)) iterates a set of strings in an order fixed  *)
(* by the interpreter's per-process string hashing: set_order is that      *)
(* order, chosen when top-off first needs it and kept for the call.        *)
(*                                                                         *)
(* History.  attempted records the candidates that reached the band check *)
(* of a pass, admitted_at the pass and the index of each placement of the  *)
(* admission loop, in order; the source keeps neither, they only serve to  *)
(* state the order of admission attempts and placements.                   *)
(*                                                                         *)
(* priority_weights, weight_added_per_priority and proportion_target are   *)
(* written by the source but never read in a decision or in the result;    *)
(* they are left out.                                                      *)
(***************************************************************************)
EXTENDS Integers, Sequences, FiniteSets, TLC

VARIABLES
    cargo_requests,      \* the request pool (module global)
    request_counter,     \* the id counter (module global)
    max_weight,          \* container spec of the optimize call
    max_length,
    max_width,
    max_height,
    set_order,           \* iteration order of list(set(...)) in this process
    pc,                  \* position inside optimize_cargo
    items_by_priority,
    packed,
    unpacked,
    current_weight,
    current_volume,
    front_left_weight,
    front_right_weight,
    rear_left_weight,
    rear_right_weight,
    packed_items_set,
    in_optimal_range,
    pass_num,
    idx,                 \* 1-based index of the inner loop (source: 0-based)
    attempts,
    tier,                \* 1-based index into high_priorities in top-off
    added_something,
    stats,
    fuel_metrics,        \* calculate_fuel_efficiency's result inside optimize
    attempted,           \* history: the indices that reached the band check
    admitted_at,         \* history: <<pass, index>> of each admission placement
    handlers,            \* the submissions in flight, one per handler thread
    args,                \* arguments of a direct call of a pure function
    returned             \* what that call returned

vars == <<cargo_requests, request_counter, max_weight, max_length, max_width, max_height,
          set_order, pc, items_by_priority, packed, unpacked, current_weight,
          current_volume, front_left_weight, front_right_weight,
          rear_left_weight, rear_right_weight, packed_items_set,
          in_optimal_range, pass_num, idx, attempts, tier, added_something,
          stats, fuel_metrics, attempted, admitted_at, handlers, args, returned>>

-----------------------------------------------------------------------------
(* Bounds of the explored input space *)

MaxReq == 3

\* whole-kilogram cargo weights 0..MaxCargo given to the fuel model
MaxCargo == 1300

\* submissions are explored while the pool holds at most MaxPool requests
MaxPool == 21

\* item types and priorities of the explored submissions: three catalogue
\* types and one unknown type; priority 0 is outside the quantity table
SubmitTypes ==
    {"Water Case (24 bottles)", "First-Aid Kit", "Sanitary Pads (20 Pack)",
     "Unknown"}

SubmitPriorities == {0, 1, 2}

\* box corners 0..MaxCoord on each axis for boxes_overlap called on its own
MaxCoord == 2

\* box extents on each axis (the catalogue's extents are all positive)
BoxExtents == {1, 2}

ReqTypes == {"Water Case (24 bottles)", "First-Aid Kit"}

ReqPriorities == {3, 8, 10}

\* item types of the pools explored around the optimal band (18, 4 and 1 kg)
BandTypes ==
    {"Water Case (24 bottles)", "First-Aid Kit", "Sanitary Pads (20 Pack)"}

\* their priorities: first eligible in passes 7, 3, 2 and 0
BandPriorities == {3, 7, 8, 10}

\* pools of up to MaxSearchReq requests explored for the placement search
MaxSearchReq == 2

\* their item types (footprints 350 x 250, 500 x 250 and 300 x 200 mm,
\* heights 200, 250 and 120 mm) and priorities (top-off tiers 10 and 8)
SearchTypes == {"First-Aid Kit", "Blanket (Rolled)", "Sanitary Pads (20 Pack)"}

SearchPriorities == {8, 10}

-----------------------------------------------------------------------------
(* Catalogue and constants *)

ItemTypes ==
    {"Water Case (24 bottles)", "Dozen NP Food Cans", "First-Aid Kit",
     "Toilet Paper (12-Roll Pack)", "Sanitary Pads (20 Pack)",
     "Clothing Pack (Jacket + Undergarments)", "Blanket (Rolled)",
     "Pet Supplies Pack", "Baby Formula (Case)"}

Preset(wt, l, w, h) == [weight |-> wt, length |-> l, width |-> w, height |-> h]

ITEM_PRESETS ==
    [t \in ItemTypes |->
        CASE t = "Water Case (24 bottles)" -> Preset(18, 450, 300, 250)
          [] t = "Dozen NP Food Cans" -> Preset(10, 400, 300, 220)
          [] t = "First-Aid Kit" -> Preset(4, 350, 250, 200)
          [] t = "Toilet Paper (12-Roll Pack)" -> Preset(3, 400, 300, 250)
          [] t = "Sanitary Pads (20 Pack)" -> Preset(1, 300, 200, 120)
          [] t = "Clothing Pack (Jacket + Undergarments)" -> Preset(5, 450, 350, 250)
          [] t = "Blanket (Rolled)" -> Preset(2, 500, 250, 250)
          [] t = "Pet Supplies Pack" -> Preset(6, 500, 300, 300)
          [] t = "Baby Formula (Case)" -> Preset(8, 400, 300, 250)]

step == 200

max_topoff_attempts == 1000

synthetic_id_base == 10000

None == <<>>

\* the two handler threads of concurrent submissions
Handlers == {1, 2}

\* a handler thread with no submission in flight
NoSubmission ==
    [pc |-> "idle", item_type |-> "", priority |-> 0, remaining |-> 0, loaded |-> 0]

-----------------------------------------------------------------------------
(* Arithmetic helpers *)

\* int(a / b) for b > 0: truncation toward zero
TruncDiv(a, b) == IF a >= 0 THEN a \div b ELSE -((-a) \div b)

\* len(range(n))
RangeLen(n) == IF n > 0 THEN n ELSE 0

\* round(n / d) to the nearest integer, ties to even, for n >= 0, d > 0
RoundDiv(n, d) ==
    LET q == n \div d
        r == n % d
    IN  IF 2 * r < d THEN q
        ELSE IF 2 * r > d THEN q + 1
        ELSE IF q % 2 = 0 THEN q ELSE q + 1

\* round(n / d * 100, 2) in hundredths of a percent, for n >= 0, d > 0;
\* computed digit group by digit group to stay within machine integers
RoundPercent(n, d) ==
    LET q1 == (n * 100) \div d
        r1 == (n * 100) % d
    IN  q1 * 100 + RoundDiv(r1 * 100, d)

\* round(n / d * 10^k) for n >= 0, d > 0, one decimal digit at a time
RECURSIVE RoundDecimals(_, _, _)
RoundDecimals(n, d, k) ==
    IF k = 0 THEN RoundDiv(n, d)
    ELSE LET RECURSIVE Pow10(_)
             Pow10(e) == IF e = 0 THEN 1 ELSE 10 * Pow10(e - 1)
         IN  (n \div d) * Pow10(k) + RoundDecimals((n % d) * 10, d, k - 1)

\* the same for either sign of n: round(-x) = -round(x)
RoundSigned(n, d, k) ==
    IF n >= 0 THEN RoundDecimals(n, d, k) ELSE -RoundDecimals(-n, d, k)

Abs(n) == IF n >= 0 THEN n ELSE -n

\* mutant: the sequence is returned as it is
Reverse_Identity(s) == s

Reverse(s) == [i \in 1..Len(s) |-> s[Len(s) + 1 - i]]

RECURSIVE SumSeq(_)
SumSeq(s) == IF s = <<>> THEN 0 ELSE Head(s) + SumSeq(Tail(s))

Volume(item) == (item.length \div 10) * (item.width \div 10) * (item.height \div 10)

-----------------------------------------------------------------------------
(* Geometry utility and placement search *)

\* mutant: the last comparison of the z axis has its operands swapped
boxes_overlap_SwappedZ(x1, y1, z1, l1, w1, h1, x2, y2, z2, l2, w2, h2) ==
    ~(  x1 + l1 <= x2 \/ x2 + l2 <= x1
     \/ y1 + w1 <= y2 \/ y2 + w2 <= y1
     \/ z1 + h1 <= z2 \/ z1 <= z2 + h2)

\* mutant: the comparisons are strict, so boxes in contact count as overlapping
boxes_overlap_Strict(x1, y1, z1, l1, w1, h1, x2, y2, z2, l2, w2, h2) ==
    ~(  x1 + l1 < x2 \/ x2 + l2 < x1
     \/ y1 + w1 < y2 \/ y2 + w2 < y1
     \/ z1 + h1 < z2 \/ z2 + h2 < z1)

boxes_overlap(x1, y1, z1, l1, w1, h1, x2, y2, z2, l2, w2, h2) ==
    ~(  x1 + l1 <= x2 \/ x2 + l2 <= x1
     \/ y1 + w1 <= y2 \/ y2 + w2 <= y1
     \/ z1 + h1 <= z2 \/ z2 + h2 <= z1)

\* the inner "for p in packed" loop: does the candidate box at origin
\* (x, y, z) overlap some packed box (rebuilt from its centre)?
OverlapsPacked(pk, item, x, y, z) ==
    \E i \in 1..Len(pk) :
        boxes_overlap(x, y, z, item.length, item.width, item.height,
                      pk[i].position.x - pk[i].length \div 2,
                      pk[i].position.y - pk[i].width \div 2,
                      pk[i].position.z - pk[i].height \div 2,
                      pk[i].length, pk[i].width, pk[i].height)

\* the three bound tests of the grid loops
ZInBounds(z, item_h, mh) == ~(z + item_h > mh)

YInBounds(y, item_w, mw) == ~(y + item_w > mw)

\* mutant: the bound test forgets the item's length
XInBounds_OriginOnly(x, item_l, ml) == ~(x > ml)

XInBounds(x, item_l, ml) == ~(x + item_l > ml)

\* quadrants are pairs <<rear, right>>
QuadrantKeys == << <<0, 0>>, <<0, 1>>, <<1, 0>>, <<1, 1>> >>

\* mutant: the quadrants are sorted heaviest first
SortQuadrants_HeaviestFirst(flw, frw, rlw, rrw) ==
    LET wt == <<flw, frw, rlw, rrw>>
        rank(i) == 1 + Cardinality({j \in 1..4 :
                        wt[j] > wt[i] \/ (wt[j] = wt[i] /\ j < i)})
    IN  [r \in 1..4 |-> QuadrantKeys[CHOOSE i \in 1..4 : rank(i) = r]]

\* sorted(quadrant_weights.keys(), key=weight): stable, lightest first
SortQuadrants(flw, frw, rlw, rrw) ==
    LET wt == <<flw, frw, rlw, rrw>>
        rank(i) == 1 + Cardinality({j \in 1..4 :
                        wt[j] < wt[i] \/ (wt[j] = wt[i] /\ j < i)})
    IN  [r \in 1..4 |-> QuadrantKeys[CHOOSE i \in 1..4 : rank(i) = r]]

\* mutant: the fixed order of the first item starts at the rear right
TargetQuadrants_RearFirst(flw, frw, rlw, rrw) ==
    IF flw + rlw + frw + rrw = 0 THEN Reverse(QuadrantKeys)
    ELSE SortQuadrants(flw, frw, rlw, rrw)

TargetQuadrants(flw, frw, rlw, rrw) ==
    LET left_weight == flw + rlw
        right_weight == frw + rrw
        total_weight == left_weight + right_weight
    IN  IF total_weight = 0 THEN QuadrantKeys
        ELSE SortQuadrants(flw, frw, rlw, rrw)

\* the grid search of one quadrant: z outermost, then y (reversed on the
\* right side), then x; the first free origin, returned as the box centre
SearchQuadrant(pk, item, ml, mw, mh, rear, right) ==
    LET x_start == IF rear = 1 THEN ml \div 2 ELSE 0
        x_end == IF rear = 1 THEN ml ELSE ml \div 2
        y_start == IF right = 1 THEN mw \div 2 ELSE 0
        y_end == IF right = 1 THEN mw ELSE mw \div 2
        nz == RangeLen(TruncDiv(mh, step))
        ny == RangeLen(TruncDiv(y_end - y_start, step))
        nx == RangeLen(TruncDiv(x_end - x_start, step))
        z_range == [i \in 1..nz |-> (i - 1) * step]
        y_asc == [i \in 1..ny |-> y_start + (i - 1) * step]
        y_range == IF right = 1 THEN Reverse(y_asc) ELSE y_asc
        x_range == [i \in 1..nx |-> x_start + (i - 1) * step]
        RECURSIVE ForX(_, _, _)
        ForX(z, y, k) ==
            IF k > nx THEN None
            ELSE IF ~XInBounds(x_range[k], item.length, ml) THEN ForX(z, y, k + 1)
            ELSE IF ~OverlapsPacked(pk, item, x_range[k], y, z)
                 THEN << [x |-> x_range[k] + item.length \div 2,
                          y |-> y + item.width \div 2,
                          z |-> z + item.height \div 2] >>
            ELSE ForX(z, y, k + 1)
        RECURSIVE ForY(_, _)
        ForY(z, j) ==
            IF j > ny THEN None
            ELSE IF ~YInBounds(y_range[j], item.width, mw) THEN ForY(z, j + 1)
            ELSE LET r == ForX(z, y_range[j], 1)
                 IN  IF r # None THEN r ELSE ForY(z, j + 1)
        RECURSIVE ForZ(_)
        ForZ(i) ==
            IF i > nz THEN None
            ELSE IF ~ZInBounds(z_range[i], item.height, mh) THEN ForZ(i + 1)
            ELSE LET r == ForY(z_range[i], 1)
                 IN  IF r # None THEN r ELSE ForZ(i + 1)
    IN  ForZ(1)

\* <<position>> of the first fit over the quadrants in visit order, or None
find_balanced_position(pk, item, ml, mw, mh, flw, frw, rlw, rrw) ==
    LET target_quadrants == TargetQuadrants(flw, frw, rlw, rrw)
        RECURSIVE ForQuadrant(_)
        ForQuadrant(q) ==
            IF q > Len(target_quadrants) THEN None
            ELSE LET r == SearchQuadrant(pk, item, ml, mw, mh,
                                         target_quadrants[q][1],
                                         target_quadrants[q][2])
                 IN  IF r # None THEN r ELSE ForQuadrant(q + 1)
    IN  ForQuadrant(1)

-----------------------------------------------------------------------------
(* Load optimizer: pure parts *)

\* mutant: the weight is sorted ascending
KeyBefore_WeightAscending(a, b) ==
    \/ a.priority > b.priority
    \/ a.priority = b.priority /\ a.weight < b.weight

\* sort key (-priority, -weight): a strictly precedes b
KeyBefore(a, b) ==
    \/ a.priority > b.priority
    \/ a.priority = b.priority /\ a.weight > b.weight

\* sorted(cargo_requests, key=...): stable
SortedRequests(reqs) ==
    LET n == Len(reqs)
        rank(i) == 1 + Cardinality({j \in 1..n :
                        \/ KeyBefore(reqs[j], reqs[i])
                        \/ ~KeyBefore(reqs[i], reqs[j]) /\ j < i})
    IN  [r \in 1..n |-> reqs[CHOOSE i \in 1..n : rank(i) = r]]

PriorityKeys(reqs) == {reqs[i].priority : i \in 1..Len(reqs)}

\* priority_groups[p], built from the sorted requests
PriorityGroup(reqs, p) ==
    LET sr == SortedRequests(reqs)
        AtP(r) == r.priority = p
    IN  SelectSeq(sr, AtP)

MaxOf(S) == CHOOSE m \in S : \A n \in S : n <= m

\* the groups concatenated, highest priority first
RECURSIVE ExtendGroups(_, _)
ExtendGroups(reqs, keys) ==
    IF keys = {} THEN <<>>
    ELSE PriorityGroup(reqs, MaxOf(keys))
            \o ExtendGroups(reqs, keys \ {MaxOf(keys)})

ItemsByPriority(reqs) == ExtendGroups(reqs, PriorityKeys(reqs))

\* mutant: the lower edge of the band is taken at 0.85 * max_weight
AtLeastOptimalMin_UpperEdge(wt) == wt * 100 >= max_weight * 85

\* weight >= max_weight * 0.75, weight <= / > max_weight * 0.85
AtLeastOptimalMin(wt) == wt * 100 >= max_weight * 75

AtMostOptimalMax(wt) == wt * 100 <= max_weight * 85

\* mutant: every priority is admitted one pass early
Eligible_OnePassEarly(priority, p) == ~(priority < 9 - p)

\* mutant: the pass schedule is inverted (pass p admits priority <= p + 1)
Eligible_Inverted(priority, p) == ~(priority > p + 1)

\* pass p admits a request iff not (priority < 10 - p)
Eligible(priority, p) == ~(priority < 10 - p)

\* mutant: the guard applies only in the pass that first admits the priority
BandGuardSkips_FirstPassOnly(item) ==
    /\ AtLeastOptimalMin(current_weight)
    /\ AtMostOptimalMax(current_weight)
    /\ ~AtMostOptimalMax(current_weight + item.weight)
    /\ item.priority < 8
    /\ item.priority = 10 - pass_num

\* the optimal-band guard: the candidate is skipped
BandGuardSkips(item) ==
    /\ AtLeastOptimalMin(current_weight)
    /\ AtMostOptimalMax(current_weight)
    /\ ~AtMostOptimalMax(current_weight + item.weight)
    /\ item.priority < 8

InBand == AtLeastOptimalMin(current_weight) /\ AtMostOptimalMax(current_weight)

MaxVolume == (max_length \div 10) * (max_width \div 10) * (max_height \div 10)

\* mutant: the dimension checks are missing
FitsConstraints_NoDimensions(item) ==
    /\ current_weight + item.weight <= max_weight
    /\ current_volume + Volume(item) <= MaxVolume

\* mutant: the weight check forgets the candidate's weight
FitsConstraints_StaleWeight(item) ==
    /\ current_weight <= max_weight
    /\ current_volume + Volume(item) <= MaxVolume
    /\ item.length <= max_length
    /\ item.width <= max_width
    /\ item.height <= max_height

\* mutant: the weight check is missing
FitsConstraints_NoWeight(item) ==
    /\ current_volume + Volume(item) <= MaxVolume
    /\ item.length <= max_length
    /\ item.width <= max_width
    /\ item.height <= max_height

\* the capacity and dimension checks before the placement search
FitsConstraints(item) ==
    /\ current_weight + item.weight <= max_weight
    /\ current_volume + Volume(item) <= MaxVolume
    /\ item.length <= max_length
    /\ item.width <= max_width
    /\ item.height <= max_height

\* <<position>> when the candidate passes the checks and a position exists
TryPlace(item) ==
    IF FitsConstraints(item)
    THEN find_balanced_position(packed, item, max_length, max_width, max_height,
                                front_left_weight, front_right_weight,
                                rear_left_weight, rear_right_weight)
    ELSE None

\* mutant: a centre on the length midplane counts as front
InFront_Inclusive(pos) == 2 * pos.x <= max_length

InFront(pos) == 2 * pos.x < max_length

OnLeft(pos) == 2 * pos.y < max_width

WithPosition(item, pos) ==
    [id |-> item.id, item_type |-> item.item_type, priority |-> item.priority,
     weight |-> item.weight, length |-> item.length, width |-> item.width,
     height |-> item.height, position |-> pos]

\* mutant: the position is written into the pool's own entry (no copy)
PoolAfterPlace_NoCopy(pool, item, pos) ==
    [i \in 1..Len(pool) |->
        IF pool[i] = item THEN WithPosition(item, pos) ELSE pool[i]]

\* item_with_pos = item.copy(): the position goes into the copy, the pool's
\* entry (the same object as the candidate) is untouched
PoolAfterPlace(pool, item, pos) == pool

\* packed.append, running totals and quadrant accumulators
Place(item, pos) ==
    /\ cargo_requests' = PoolAfterPlace(cargo_requests, item, pos)
    /\ packed' = Append(packed, WithPosition(item, pos))
    /\ current_weight' = current_weight + item.weight
    /\ current_volume' = current_volume + Volume(item)
    /\ front_left_weight' =
         front_left_weight + (IF InFront(pos) /\ OnLeft(pos) THEN item.weight ELSE 0)
    /\ front_right_weight' =
         front_right_weight + (IF InFront(pos) /\ ~OnLeft(pos) THEN item.weight ELSE 0)
    /\ rear_left_weight' =
         rear_left_weight + (IF ~InFront(pos) /\ OnLeft(pos) THEN item.weight ELSE 0)
    /\ rear_right_weight' =
         rear_right_weight + (IF ~InFront(pos) /\ ~OnLeft(pos) THEN item.weight ELSE 0)

NoPlace ==
    UNCHANGED <<cargo_requests, packed, current_weight, current_volume, front_left_weight,
                front_right_weight, rear_left_weight, rear_right_weight>>

critical_items_remaining ==
    \E i \in 1..Len(items_by_priority) :
        i \notin packed_items_set /\ items_by_priority[i].priority >= 9

\* mutant: the membership test is missing, every item is collected
CollectUnpacked_All == items_by_priority

\* the items never placed, in items_by_priority order
CollectUnpacked ==
    LET RECURSIVE From(_)
        From(i) ==
            IF i > Len(items_by_priority) THEN <<>>
            ELSE IF i \notin packed_items_set
                 THEN <<items_by_priority[i]>> \o From(i + 1)
                 ELSE From(i + 1)
    IN  From(1)

has_high_priority == \E p \in PriorityKeys(cargo_requests) : p >= 8

\* sorted([p for p in priority_groups if p >= 8], reverse=True)
RECURSIVE Descending(_)
Descending(S) ==
    IF S = {} THEN <<>> ELSE <<MaxOf(S)>> \o Descending(S \ {MaxOf(S)})

high_priorities == Descending({p \in PriorityKeys(cargo_requests) : p >= 8})

TypesAt(p) ==
    {cargo_requests[i].item_type :
        i \in {j \in 1..Len(cargo_requests) : cargo_requests[j].priority = p}}

\* list(set(item types at priority p)): the set in this process's
\* iteration order
UniqueTypesIn(order, p) ==
    LET Has(t) == t \in TypesAt(p)
    IN  SelectSeq(order, Has)

unique_types(p) == UniqueTypesIn(set_order, p)

\* mutant: no rotation, every attempt takes the first type
RotatedTypeIn_First(order, p, a) == UniqueTypesIn(order, p)[1]

\* unique_types[attempts % len(unique_types)] under a given iteration order
RotatedTypeIn(order, p, a) ==
    UniqueTypesIn(order, p)[(a % Len(UniqueTypesIn(order, p))) + 1]

\* the type top-off picks at a tier in attempt a
RotatedType(p, a) == RotatedTypeIn(set_order, p, a)

NewItem(p, a) ==
    LET item_type == RotatedType(p, a)
        item_specs == ITEM_PRESETS[item_type]
    IN  [id |-> synthetic_id_base + a, item_type |-> item_type, priority |-> p,
         weight |-> item_specs.weight, length |-> item_specs.length,
         width |-> item_specs.width, height |-> item_specs.height]

TypesInPool == {cargo_requests[i].item_type : i \in 1..Len(cargo_requests)}

\* the orders in which a set of strings can be iterated
SetOrders(S) ==
    {s \in [1..Cardinality(S) -> S] :
        \A i, j \in 1..Cardinality(S) : i # j => s[i] # s[j]}

-----------------------------------------------------------------------------
(* Plan summarizer *)

\* sum(p['position'][axis] * p['weight'] for p in packed)
WeightedSum(axis) ==
    SumSeq([i \in 1..Len(packed) |-> packed[i].position[axis] * packed[i].weight])

\* round(balance_score, 1) in tenths of a percent.  With cog = S / weight,
\* balance_axis = 100 - |2 S - max * weight| / (max * weight) * 100, so
\* balance_score = 50 * (2 L W wt - (A W + B L)) / (L W wt) with
\* A = |2 Sx - L wt| and B = |2 Sy - W wt|; lengths here in centimetres
\* (all of 2 Sx, 2 Sy, L, W are multiples of 10 mm)
\* mutant: the empty plan reports a balance score of 0
BalanceScore_EmptyZero ==
    IF packed # <<>>
    THEN LET l == max_length \div 10
             w == max_width \div 10
             a == Abs((2 * WeightedSum("x")) \div 10 - l * current_weight)
             b == Abs((2 * WeightedSum("y")) \div 10 - w * current_weight)
             d == l * w * current_weight
         IN  RoundSigned(5 * (2 * d - (a * w + b * l)), d, 2)
    ELSE 0

BalanceScore ==
    IF packed # <<>>
    THEN LET l == max_length \div 10
             w == max_width \div 10
             a == Abs((2 * WeightedSum("x")) \div 10 - l * current_weight)
             b == Abs((2 * WeightedSum("y")) \div 10 - w * current_weight)
             d == l * w * current_weight
         IN  RoundSigned(5 * (2 * d - (a * w + b * l)), d, 2)
    ELSE 1000

\* stats of the returned plan: utilizations in hundredths of a percent,
\* centre of gravity in hundredths of a metre (both after round(., 2)),
\* balance_score in tenths of a percent
PlanStats ==
    [total_weight |-> current_weight,
     weight_utilization |->
        IF max_weight > 0 THEN RoundPercent(current_weight, max_weight) ELSE 0,
     total_volume |-> current_volume,
     volume_utilization |->
        IF MaxVolume > 0 THEN RoundPercent(current_volume, MaxVolume) ELSE 0,
     items_packed |-> Len(packed),
     items_unpacked |-> Len(unpacked),
     center_of_gravity |->
        IF packed # <<>>
        THEN [x |-> RoundDiv(WeightedSum("x"), current_weight * 10),
              y |-> RoundDiv(WeightedSum("y"), current_weight * 10),
              z |-> RoundDiv(WeightedSum("z"), current_weight * 10)]
        ELSE [x |-> 0, y |-> 0, z |-> 0],
     balance_score |-> BalanceScore,
     left_weight |->
        IF packed # <<>> THEN front_left_weight + rear_left_weight ELSE 0,
     right_weight |->
        IF packed # <<>> THEN front_right_weight + rear_right_weight ELSE 0]

-----------------------------------------------------------------------------
(* Fuel model *)

AircraftTypes == {"UH-60 Black Hawk"}

\* fuel_burn_per_kg (0.08) is kept in hundredths
AIRCRAFT_PRESETS ==
    [t \in AircraftTypes |->
        [max_weight |-> 1200, fuel_burn_empty |-> 320,
         fuel_burn_per_kg_c |-> 8, cruise_speed |-> 268]]

\* the default of the mission_distance parameter, the only value ever passed
mission_distance == 100

\* the rating of a cargo weight of w / u kilograms; capacity_utilization
\* = (w / u) / max_weight * 100 is compared unrounded:
\* cu >= b  iff  100 w >= b * max_weight * u
\* mutant: the upper edge of the optimal band is exclusive
efficiency_rating_OpenAt85(aircraft, w, u) ==
    IF 100 * w >= 75 * aircraft.max_weight * u
       /\ 100 * w < 85 * aircraft.max_weight * u THEN "Optimal"
    ELSE IF 100 * w >= 85 * aircraft.max_weight * u THEN "Good"
    ELSE IF 100 * w >= 60 * aircraft.max_weight * u THEN "Moderate"
    ELSE "Low"

efficiency_rating(aircraft, w, u) ==
    IF 100 * w >= 75 * aircraft.max_weight * u
       /\ 100 * w <= 85 * aircraft.max_weight * u THEN "Optimal"
    ELSE IF 100 * w > 85 * aircraft.max_weight * u THEN "Good"
    ELSE IF 100 * w >= 60 * aircraft.max_weight * u THEN "Moderate"
    ELSE "Low"

\* calculate_fuel_efficiency(aircraft_type, cargo_weight) for a cargo weight
\* of w / u kilograms (u > 0).  fuel_used = rate * mission_distance /
\* cruise_speed with rate = fuel_burn_empty + cargo_weight * fuel_burn_per_kg;
\* in hundredths rate_c = (fuel_burn_empty * 100 u + fuel_burn_per_kg_c * w) / u,
\* and mission_distance = 100 cancels the hundredths.
\* fuel_used_kg and capacity_utilization are in tenths, fuel_efficiency_ratio
\* in hundredths (after round)
calculate_fuel_efficiency(aircraft_type, w, u) ==
    IF aircraft_type \notin DOMAIN AIRCRAFT_PRESETS THEN None
    ELSE LET aircraft == AIRCRAFT_PRESETS[aircraft_type]
             rate_c == aircraft.fuel_burn_empty * 100 * u
                           + aircraft.fuel_burn_per_kg_c * w
             used_den == (aircraft.cruise_speed * u * 100) \div mission_distance
             fuel_used_positive == rate_c > 0
         IN  [fuel_used_kg |-> RoundSigned(rate_c, used_den, 1),
              fuel_efficiency_ratio |->
                 IF fuel_used_positive
                 THEN RoundSigned(w * aircraft.cruise_speed,
                                  rate_c \div (100 \div mission_distance), 2)
                 ELSE 0,
              efficiency_rating |-> efficiency_rating(aircraft, w, u),
              capacity_utilization |->
                 RoundSigned(w, aircraft.max_weight * u, 3)]

-----------------------------------------------------------------------------
(* Inputs *)

Request(i, t, p) ==
    [id |-> i, item_type |-> t, priority |-> p,
     weight |-> ITEM_PRESETS[t].weight, length |-> ITEM_PRESETS[t].length,
     width |-> ITEM_PRESETS[t].width, height |-> ITEM_PRESETS[t].height]

PoolOf(k) == [i \in 1..Len(k) |-> Request(i, k[i][1], k[i][2])]

\* request pools of up to MaxReq requests with ids 1, 2, ... in pool order
RequestPools ==
    {PoolOf(k) :
        k \in UNION {[1..m -> ReqTypes \X ReqPriorities] : m \in 0..MaxReq}}

Container(wt, l, w, h) ==
    [max_weight |-> wt, max_length |-> l, max_width |-> w, max_height |-> h]

Containers ==
    {Container(24, 800, 640, 250),
     Container(40, 800, 640, 500),
     Container(100, 400, 500, 250),
     Container(0, 800, 640, 250),
     Container(-10, 800, 640, 250),
     Container(24, 800, 640, 0),
     Container(24, -800, 640, 250),
     Container(24, -800, -640, 250)}

\* pools of up to MaxReq requests of the band types
BandPools ==
    {PoolOf(k) :
        k \in UNION {[1..m -> BandTypes \X BandPriorities] : m \in 0..MaxReq}}

\* a container whose optimal band is 18 .. 20.4 kg
BandContainer == Container(24, 800, 640, 250)

\* pools of up to MaxSearchReq requests of the search types
SearchPools ==
    {PoolOf(k) :
        k \in UNION {[1..m -> SearchTypes \X SearchPriorities] :
                        m \in 0..MaxSearchReq}}

\* a container with two grid rows per quadrant on the y axis and two grid
\* levels on the z axis, which top-off fills before 0.75 * max_weight
SearchContainer == Container(400, 800, 1000, 500)

\* a container as long as the longest search item: that item's centre lies
\* on the length midplane
MidplaneContainer == Container(400, 500, 500, 250)

\* the aircraft of the single-request scenario
ScenarioContainer == Container(1200, 3800, 2200, 1300)

-----------------------------------------------------------------------------
(* State machine *)

Idle(pool, c) ==
    /\ cargo_requests = pool
    /\ request_counter = Len(pool)
    /\ max_weight = c.max_weight
    /\ max_length = c.max_length
    /\ max_width = c.max_width
    /\ max_height = c.max_height
    /\ set_order = <<>>
    /\ pc = "idle"
    /\ items_by_priority = <<>>
    /\ packed = <<>>
    /\ unpacked = <<>>
    /\ current_weight = 0
    /\ current_volume = 0
    /\ front_left_weight = 0
    /\ front_right_weight = 0
    /\ rear_left_weight = 0
    /\ rear_right_weight = 0
    /\ packed_items_set = {}
    /\ in_optimal_range = FALSE
    /\ pass_num = 0
    /\ idx = 1
    /\ attempts = 0
    /\ tier = 1
    /\ added_something = FALSE
    /\ stats = None
    /\ fuel_metrics = None
    /\ attempted = {}
    /\ admitted_at = <<>>
    /\ handlers = [h \in Handlers |-> NoSubmission]

NoCall == args = None /\ returned = None

Init == \E pool \in RequestPools : \E c \in Containers : Idle(pool, c) /\ NoCall

InitScenario ==
    \E p \in 1..10 :
        Idle(<<Request(1, "Water Case (24 bottles)", p)>>, ScenarioContainer)
            /\ NoCall

container == <<max_weight, max_length, max_width, max_height>>

direct_call == <<args, returned>>

InitBand == \E pool \in BandPools : Idle(pool, BandContainer) /\ NoCall

inputs == <<cargo_requests, request_counter, container, direct_call, handlers>>

\* what a placement step leaves alone outside the optimizer's locals
frame == <<request_counter, container, direct_call, handlers>>

result == <<stats, fuel_metrics>>

history == <<attempted, admitted_at>>

admission == <<pc, items_by_priority, unpacked, packed_items_set, history,
               in_optimal_range, pass_num, idx>>

placement == <<packed, current_weight, current_volume, front_left_weight,
               front_right_weight, rear_left_weight, rear_right_weight>>

topoff == <<set_order, attempts, tier, added_something>>

\* optimize_cargo up to the first pass: sort, group, initialise the locals
Optimize ==
    /\ pc = "idle"
    /\ items_by_priority' = ItemsByPriority(cargo_requests)
    /\ packed' = <<>>
    /\ unpacked' = <<>>
    /\ current_weight' = 0
    /\ current_volume' = 0
    /\ front_left_weight' = 0
    /\ front_right_weight' = 0
    /\ rear_left_weight' = 0
    /\ rear_right_weight' = 0
    /\ packed_items_set' = {}
    /\ in_optimal_range' = FALSE
    /\ pass_num' = 0
    /\ idx' = 1
    /\ attempted' = {}
    /\ admitted_at' = <<>>
    /\ pc' = "pass"
    /\ UNCHANGED <<inputs, topoff, result>>

\* one iteration of the inner loop of a pass
PackStep ==
    /\ pc = "pass"
    /\ idx <= Len(items_by_priority)
    /\ LET item == items_by_priority[idx]
           examined == idx \notin packed_items_set
                       /\ Eligible(item.priority, pass_num)
           tried == examined /\ ~BandGuardSkips(item)
           best_position == TryPlace(item)
       IN  /\ in_optimal_range' = (in_optimal_range \/ (examined /\ InBand))
           /\ attempted' = IF examined THEN attempted \cup {idx} ELSE attempted
           /\ IF tried /\ best_position # None
              THEN /\ Place(item, best_position[1])
                   /\ packed_items_set' = packed_items_set \cup {idx}
                   /\ admitted_at' = Append(admitted_at, <<pass_num, idx>>)
              ELSE /\ NoPlace
                   /\ UNCHANGED <<packed_items_set, admitted_at>>
    /\ idx' = idx + 1
    /\ UNCHANGED <<frame, topoff, result, pc, items_by_priority, unpacked, pass_num>>

\* mutant: after the last pass the loop starts over at pass 0
EndPass_StartsOver ==
    /\ pc = "pass"
    /\ idx > Len(items_by_priority)
    /\ IF in_optimal_range /\ pass_num >= 3 /\ ~critical_items_remaining
       THEN /\ pc' = "collect"
            /\ UNCHANGED <<pass_num, idx>>
       ELSE /\ pass_num' = (pass_num + 1) % 10
            /\ idx' = 1
            /\ pc' = "pass"
    /\ UNCHANGED <<inputs, topoff, result, placement, items_by_priority, unpacked,
                   packed_items_set, history, in_optimal_range>>

\* the end of a pass: early exit, next pass, or the end of the loop
EndPass ==
    /\ pc = "pass"
    /\ idx > Len(items_by_priority)
    /\ IF (in_optimal_range /\ pass_num >= 3 /\ ~critical_items_remaining)
          \/ pass_num = 9
       THEN /\ pc' = "collect"
            /\ UNCHANGED <<pass_num, idx>>
       ELSE /\ pass_num' = pass_num + 1
            /\ idx' = 1
            /\ pc' = "pass"
    /\ UNCHANGED <<inputs, topoff, result, placement, items_by_priority, unpacked,
                   packed_items_set, history, in_optimal_range>>

\* collect the unpacked items and decide whether top-off runs
Collect ==
    /\ pc = "collect"
    /\ unpacked' = CollectUnpacked
    /\ IF ~AtLeastOptimalMin(current_weight) /\ has_high_priority
       THEN /\ set_order' \in SetOrders(TypesInPool)
            /\ pc' = "topoff_while"
       ELSE /\ UNCHANGED set_order
            /\ pc' = "summarize"
    /\ attempts' = 0
    /\ UNCHANGED <<inputs, result, placement, items_by_priority, packed_items_set,
                   history, in_optimal_range, pass_num, idx, tier,
                   added_something>>

\* the head of the top-off loop
TopOffWhile ==
    /\ pc = "topoff_while"
    /\ IF ~AtLeastOptimalMin(current_weight) /\ attempts < max_topoff_attempts
       THEN /\ attempts' = attempts + 1
            /\ added_something' = FALSE
            /\ tier' = 1
            /\ pc' = "topoff_for"
       ELSE /\ pc' = "summarize"
            /\ UNCHANGED <<attempts, added_something, tier>>
    /\ UNCHANGED <<inputs, result, placement, items_by_priority, packed_items_set,
                   history, in_optimal_range, pass_num, idx, unpacked, set_order>>

\* one iteration of the loop over high_priorities, or its end
TopOffFor ==
    /\ pc = "topoff_for"
    /\ IF tier > Len(high_priorities)
       THEN /\ pc' = IF added_something THEN "topoff_while" ELSE "summarize"
            /\ NoPlace
            /\ UNCHANGED <<tier, added_something>>
       ELSE IF AtLeastOptimalMin(current_weight)
       THEN /\ tier' = Len(high_priorities) + 1
            /\ NoPlace
            /\ UNCHANGED <<pc, added_something>>
       ELSE LET new_item == NewItem(high_priorities[tier], attempts)
                best_position == TryPlace(new_item)
            IN  /\ IF best_position # None
                   THEN /\ Place(new_item, best_position[1])
                        /\ added_something' = TRUE
                   ELSE /\ NoPlace
                        /\ UNCHANGED added_something
                /\ tier' = IF AtLeastOptimalMin(current_weight')
                           THEN Len(high_priorities) + 1
                           ELSE tier + 1
                /\ UNCHANGED pc
    /\ UNCHANGED <<frame, result, items_by_priority, packed_items_set, history,
                   in_optimal_range, pass_num, idx, unpacked, set_order, attempts>>

\* the summary of the plan and the return
Summarize ==
    /\ pc = "summarize"
    /\ stats' = PlanStats
    /\ fuel_metrics' = calculate_fuel_efficiency("UH-60 Black Hawk", current_weight, 1)
    /\ pc' = "done"
    /\ UNCHANGED <<inputs, topoff, placement, items_by_priority, unpacked,
                   packed_items_set, history, in_optimal_range, pass_num, idx>>

Next ==
    \/ Optimize
    \/ PackStep
    \/ EndPass
    \/ Collect
    \/ TopOffWhile
    \/ TopOffFor
    \/ Summarize

Spec == Init /\ [][Next]_vars

-----------------------------------------------------------------------------
(* The request pool: submissions and clears, handled one at a time *)

\* quantity_map.get(priority, 20)
get_quantity_from_priority(priority) ==
    CASE priority = 1 -> 3
      [] priority = 2 -> 6
      [] priority = 3 -> 10
      [] priority = 4 -> 15
      [] priority = 5 -> 20
      [] priority = 6 -> 25
      [] priority = 7 -> 30
      [] priority = 8 -> 35
      [] priority = 9 -> 40
      [] priority = 10 -> 50
      [] OTHER -> 20

\* the requests one accepted submission appends: ids counter + 1, ...
NewRequests(item_type, priority, counter) ==
    [k \in 1..get_quantity_from_priority(priority) |->
        Request(counter + k, item_type, priority)]

optimizer_idle ==
    <<container, direct_call, placement, topoff, result, admission, handlers>>

\* POST /api/requests: an unknown item type is refused and changes nothing
handle_requests(item_type, priority) ==
    /\ pc = "idle"
    /\ Len(cargo_requests) + get_quantity_from_priority(priority) <= MaxPool
    /\ IF item_type \notin DOMAIN ITEM_PRESETS
       THEN UNCHANGED <<cargo_requests, request_counter>>
       ELSE /\ request_counter' =
                 request_counter + get_quantity_from_priority(priority)
            /\ cargo_requests' =
                 cargo_requests \o NewRequests(item_type, priority, request_counter)
    /\ UNCHANGED optimizer_idle

\* mutant: the counter is reset but the pool is kept
clear_requests_KeepsPool ==
    /\ pc = "idle"
    /\ request_counter' = 0
    /\ UNCHANGED cargo_requests
    /\ UNCHANGED optimizer_idle

\* POST /api/requests/clear
clear_requests ==
    /\ pc = "idle"
    /\ cargo_requests' = <<>>
    /\ request_counter' = 0
    /\ UNCHANGED optimizer_idle

InitService == Idle(<<>>, ScenarioContainer) /\ NoCall

NextService ==
    \/ \E t \in SubmitTypes : \E p \in SubmitPriorities : handle_requests(t, p)
    \/ clear_requests

SpecService == InitService /\ [][NextService]_vars

-----------------------------------------------------------------------------
(* The request pool under concurrent submissions: two handler threads run  *)
(* handle_requests at once.  request_counter += 1 is a read of the global  *)
(* followed by a write, and the dictionary appended next reads the global  *)
(* again; a thread switch can fall between any two of these steps.         *)

\* item types and priorities of the concurrent submissions (quantity 3)
ConcurrentTypes == {"Water Case (24 bottles)", "First-Aid Kit", "Unknown"}

ConcurrentPriorities == {1}

optimizer_locals == <<container, direct_call, placement, topoff, result, admission>>

\* the handler reads the submission: an unknown item type is refused
ReceiveSubmission(h, item_type, priority) ==
    /\ handlers[h].pc = "idle"
    /\ handlers' =
         [handlers EXCEPT ![h] =
             IF item_type \notin DOMAIN ITEM_PRESETS
             THEN [NoSubmission EXCEPT !.pc = "returned"]
             ELSE [pc |-> "load", item_type |-> item_type, priority |-> priority,
                   remaining |-> get_quantity_from_priority(priority),
                   loaded |-> 0]]
    /\ UNCHANGED <<cargo_requests, request_counter, optimizer_locals>>

\* request_counter += 1, first half: the global is read
LoadCounter(h) ==
    /\ handlers[h].pc = "load"
    /\ handlers' = [handlers EXCEPT ![h].loaded = request_counter,
                                    ![h].pc = "store"]
    /\ UNCHANGED <<cargo_requests, request_counter, optimizer_locals>>

\* request_counter += 1, second half: the sum is written back
StoreCounter(h) ==
    /\ handlers[h].pc = "store"
    /\ request_counter' = handlers[h].loaded + 1
    /\ handlers' = [handlers EXCEPT ![h].pc = "append"]
    /\ UNCHANGED <<cargo_requests, optimizer_locals>>

\* cargo_requests.append({"id": request_counter, ...}): the id is the value
\* of the global at this moment
AppendRequest(h) ==
    /\ handlers[h].pc = "append"
    /\ cargo_requests' =
         Append(cargo_requests,
                Request(request_counter, handlers[h].item_type,
                        handlers[h].priority))
    /\ handlers' =
         [handlers EXCEPT ![h].remaining = handlers[h].remaining - 1,
                          ![h].pc = IF handlers[h].remaining > 1
                                    THEN "load" ELSE "returned"]
    /\ UNCHANGED <<request_counter, optimizer_locals>>

InitConcurrent == Idle(<<>>, ScenarioContainer) /\ NoCall

NextConcurrent ==
    \E h \in Handlers :
        \/ \E t \in ConcurrentTypes : \E p \in ConcurrentPriorities :
              ReceiveSubmission(h, t, p)
        \/ LoadCounter(h)
        \/ StoreCounter(h)
        \/ AppendRequest(h)

SpecConcurrent == InitConcurrent /\ [][NextConcurrent]_vars

-----------------------------------------------------------------------------
(* The geometry utility called on its own *)

\* boxes <<x, y, z, l, w, h>>: min corner and extents
Boxes ==
    (0..MaxCoord) \X (0..MaxCoord) \X (0..MaxCoord)
        \X BoxExtents \X BoxExtents \X BoxExtents

OverlapOf(a, b) ==
    boxes_overlap(a[1], a[2], a[3], a[4], a[5], a[6],
                  b[1], b[2], b[3], b[4], b[5], b[6])

InitOverlap ==
    /\ Idle(<<>>, ScenarioContainer)
    /\ args \in Boxes \X Boxes
    /\ returned = None

\* the calls boxes_overlap(A, B) and boxes_overlap(B, A)
CallOverlap ==
    /\ args # None
    /\ returned = None
    /\ returned' = <<OverlapOf(args[1], args[2]), OverlapOf(args[2], args[1])>>
    /\ UNCHANGED <<cargo_requests, request_counter, container, args, placement,
                   topoff, result, admission, handlers>>

NextOverlap == CallOverlap

SpecOverlap == InitOverlap /\ [][NextOverlap]_vars

-----------------------------------------------------------------------------
(* The fuel model called on its own *)

\* cargo weights as pairs <<w, u>> meaning w / u kilograms: every whole
\* kilogram up to MaxCargo, weights next to the rating boundaries
\* (899.9996, 1020.0012 = 85.0001 %, 719.988 = 59.999 %, 719.9996), and
\* negative weights down to where fuel_used is no longer positive
FuelWeights ==
    {<<k, 1>> : k \in 0..MaxCargo}
        \cup {<<2249999, 2500>>, <<2550003, 2500>>, <<179997, 250>>,
              <<1799999, 2500>>, <<2250001, 2500>>, <<2549999, 2500>>,
              <<-1, 1>>, <<-4000, 1>>, <<-5000, 1>>}

FuelCalls ==
    {<<a, wu[1], wu[2]>> : a \in AircraftTypes \cup {"Unknown"}, wu \in FuelWeights}

InitFuel ==
    /\ Idle(<<>>, ScenarioContainer)
    /\ args \in FuelCalls
    /\ returned = None

\* one call calculate_fuel_efficiency(aircraft_type, cargo_weight)
CalculateFuel ==
    /\ args # None
    /\ returned = None
    /\ returned' = <<calculate_fuel_efficiency(args[1], args[2], args[3])>>
    /\ UNCHANGED <<cargo_requests, request_counter, container, args, placement,
                   topoff, result, admission, handlers>>

NextFuel == CalculateFuel

SpecFuel == InitFuel /\ [][NextFuel]_vars

SpecScenario == InitScenario /\ [][Next]_vars

SpecBand == InitBand /\ [][Next]_vars

InitSearch ==
    \E pool \in SearchPools : \E c \in {SearchContainer, MidplaneContainer} :
        Idle(pool, c) /\ NoCall

SpecSearch == InitSearch /\ [][Next]_vars

-----------------------------------------------------------------------------
(* Properties of the returned plan *)

Done == pc = "done"

IsSynthetic(p) == p.id > synthetic_id_base

PackedWeight == SumSeq([i \in 1..Len(packed) |-> packed[i].weight])

PackedVolume == SumSeq([i \in 1..Len(packed) |-> Volume(packed[i])])

NonNegative(n) == IF n > 0 THEN n ELSE 0

\* the bounding box of a packed item: min and max corner on each axis
MinX(p) == p.position.x - p.length \div 2

MaxX(p) == p.position.x + p.length \div 2

MinY(p) == p.position.y - p.width \div 2

MaxY(p) == p.position.y + p.width \div 2

MinZ(p) == p.position.z - p.height \div 2

MaxZ(p) == p.position.z + p.height \div 2

\* the interiors of two boxes meet on all three axes
StrictlyIntersect(p, q) ==
    /\ MinX(p) < MaxX(q) /\ MinX(q) < MaxX(p)
    /\ MinY(p) < MaxY(q) /\ MinY(q) < MaxY(p)
    /\ MinZ(p) < MaxZ(q) /\ MinZ(q) < MaxZ(p)

\* two boxes share a face: they meet on two axes and touch on the third
ShareFace(p, q) ==
    \/ /\ MaxX(p) = MinX(q)
       /\ MinY(p) < MaxY(q) /\ MinY(q) < MaxY(p)
       /\ MinZ(p) < MaxZ(q) /\ MinZ(q) < MaxZ(p)
    \/ /\ MaxY(p) = MinY(q)
       /\ MinX(p) < MaxX(q) /\ MinX(q) < MaxX(p)
       /\ MinZ(p) < MaxZ(q) /\ MinZ(q) < MaxZ(p)
    \/ /\ MaxZ(p) = MinZ(q)
       /\ MinX(p) < MaxX(q) /\ MinX(q) < MaxX(p)
       /\ MinY(p) < MaxY(q) /\ MinY(q) < MaxY(p)

\* C1 as stated: in the returned plan the weights of all packed items sum to
\* at most max_weight and their volumes to at most the container volume.
C1_CapacityAsStated ==
    Done => PackedWeight <= max_weight /\ PackedVolume <= MaxVolume

\* C1 amended: the packed weight is at most max_weight and the packed volume
\* at most the container volume whenever those capacities are not negative;
\* under a negative capacity the plan is empty (sums 0).  It holds at every
\* point of the call, hence of the returned plan, and the running totals the
\* checks use are the sums over packed.
C1_Capacity ==
    /\ PackedWeight <= NonNegative(max_weight)
    /\ PackedVolume <= NonNegative(MaxVolume)
    /\ current_weight = PackedWeight
    /\ current_volume = PackedVolume

\* a returned plan with synthetic items in which a request stayed out because
\* its weight no longer fits under max_weight
C1_Witness ==
    /\ Done
    /\ \E i \in 1..Len(packed) : IsSynthetic(packed[i])
    /\ \E i \in 1..Len(unpacked) :
          /\ PackedWeight + unpacked[i].weight > max_weight
          /\ unpacked[i].length <= max_length

\* C2: no two packed items, original or synthetic, have bounding boxes whose
\* interiors intersect (shared faces are allowed).
C2_NonOverlap ==
    \A i, j \in 1..Len(packed) :
        i < j => ~StrictlyIntersect(packed[i], packed[j])

\* a returned plan in which an original and a synthetic item share a face
C2_Witness ==
    /\ Done
    /\ \E i, j \in 1..Len(packed) :
          /\ ~IsSynthetic(packed[i])
          /\ IsSynthetic(packed[j])
          /\ ShareFace(packed[i], packed[j])

\* C3: the bounding box of every packed item lies within
\* [0, max_length] x [0, max_width] x [0, max_height].
C3_Containment ==
    \A i \in 1..Len(packed) :
        /\ 0 <= MinX(packed[i]) /\ MaxX(packed[i]) <= max_length
        /\ 0 <= MinY(packed[i]) /\ MaxY(packed[i]) <= max_width
        /\ 0 <= MinZ(packed[i]) /\ MaxZ(packed[i]) <= max_height

\* a returned plan with a synthetic item placed against the right wall
C3_Witness ==
    /\ Done
    /\ \E i \in 1..Len(packed) :
          IsSynthetic(packed[i]) /\ MaxY(packed[i]) = max_width

WithoutPosition(p) ==
    [id |-> p.id, item_type |-> p.item_type, priority |-> p.priority,
     weight |-> p.weight, length |-> p.length, width |-> p.width,
     height |-> p.height]

\* how often request r occurs among the original (non-synthetic) packed items
TimesPacked(r) ==
    Cardinality({i \in 1..Len(packed) :
        ~IsSynthetic(packed[i]) /\ WithoutPosition(packed[i]) = r})

TimesUnpacked(r) == Cardinality({i \in 1..Len(unpacked) : unpacked[i] = r})

PoolSet == {cargo_requests[i] : i \in 1..Len(cargo_requests)}

\* C4: in the returned plan every request of the snapshot occurs exactly once
\* in packed or unpacked, and apart from synthetic items packed and unpacked
\* hold nothing else.
C4_Conservation ==
    Done =>
        /\ \A r \in PoolSet : TimesPacked(r) + TimesUnpacked(r) = 1
        /\ \A i \in 1..Len(unpacked) : unpacked[i] \in PoolSet
        /\ \A i \in 1..Len(packed) :
              ~IsSynthetic(packed[i]) => WithoutPosition(packed[i]) \in PoolSet

\* a returned plan with a packed request, an unpacked request and a
\* synthetic item
C4_Witness ==
    /\ Done
    /\ unpacked # <<>>
    /\ \E i \in 1..Len(packed) : ~IsSynthetic(packed[i])
    /\ \E i \in 1..Len(packed) : IsSynthetic(packed[i])

IsPacked(r) == TimesPacked(r) > 0

\* one item of this kind can be placed in the empty container
FitsEmptyContainer(r) ==
    /\ r.weight <= max_weight
    /\ Volume(r) <= MaxVolume
    /\ r.length <= max_length /\ r.width <= max_width /\ r.height <= max_height
    /\ find_balanced_position(<<>>, r, max_length, max_width, max_height,
                              0, 0, 0, 0) # None

\* C5: of two requests identical but for their priority, the lower-priority
\* one is packed only if the higher-priority one is; and when the pool is just
\* such a pair and the container takes one item of the kind, the
\* higher-priority request is packed.
C5_PriorityMonotonicity ==
    Done =>
        /\ \A r, q \in PoolSet :
              (r.item_type = q.item_type /\ r.priority > q.priority /\ IsPacked(q))
                  => IsPacked(r)
        /\ \A r, q \in PoolSet :
              (/\ Len(cargo_requests) = 2
               /\ r.item_type = q.item_type
               /\ r.priority > q.priority
               /\ FitsEmptyContainer(r))
                  => IsPacked(r)

\* a returned plan for a pool of two like requests of different priority, the
\* lower-priority one first in the pool, with room for one only: the higher
\* one is packed and the lower one is not
C5_Witness ==
    /\ Done
    /\ Len(cargo_requests) = 2
    /\ cargo_requests[1].item_type = cargo_requests[2].item_type
    /\ cargo_requests[1].priority < cargo_requests[2].priority
    /\ IsPacked(cargo_requests[2])
    /\ ~IsPacked(cargo_requests[1])
    /\ unpacked = <<cargo_requests[1]>>

\* C6 (its last sentence) as stated: the item type top-off takes from the set
\* of distinct types at a tier is the same under every iteration order of
\* that set, so it cannot vary between executions.
C6_TypeChoiceFixed ==
    (pc = "topoff_for" /\ tier <= Len(high_priorities)) =>
        \A o \in SetOrders(TypesInPool) :
            RotatedTypeIn(o, high_priorities[tier], attempts)
                = RotatedType(high_priorities[tier], attempts)

TopOffRan == attempts > 0

\* one more instance of type t at tier p fails the checks or has no position
CannotAdd(t, p) == TryPlace(Request(0, t, p)) = None

Saturated ==
    \A k \in 1..Len(high_priorities) :
        \A t \in TypesAt(high_priorities[k]) : CannotAdd(t, high_priorities[k])

\* C7 as stated: when top-off has run, the returned plan either reaches
\* 0.75 * max_weight or the container is saturated for every item type
\* requested at every eligible tier.
C7_ShortfallMeansSaturated ==
    (Done /\ TopOffRan) => (AtLeastOptimalMin(current_weight) \/ Saturated)

CornerCentre == [x |-> 225, y |-> 150, z |-> 125]

\* C8 as stated: for the single 18 kg request of any priority 1..10 in the
\* 1200 kg, 3.8 x 2.2 x 1.3 m container the plan has one packed item, at the
\* front-left-bottom corner, none unpacked, and weight_utilization 1.5 %.
C8_SingleRequestAsStated ==
    Done =>
        /\ stats.items_packed = 1
        /\ stats.items_unpacked = 0
        /\ packed[1].position = CornerCentre
        /\ stats.weight_utilization = 150

\* C8 amended: the request is packed first, at the front-left-bottom corner,
\* and nothing is unpacked; for priority 1..7 it is the only packed item and
\* weight_utilization is 1.5 %; for priority 8..10 top-off adds 49 synthetic
\* items of the same type and tier, so 50 items are packed and
\* weight_utilization is 75 %.
C8_SingleRequest ==
    Done =>
        /\ packed[1] = WithPosition(cargo_requests[1], CornerCentre)
        /\ stats.items_unpacked = 0
        /\ unpacked = <<>>
        /\ IF cargo_requests[1].priority < 8
           THEN /\ stats.items_packed = 1
                /\ Len(packed) = 1
                /\ stats.weight_utilization = 150
           ELSE /\ stats.items_packed = 50
                /\ stats.weight_utilization = 7500
                /\ \A i \in 2..Len(packed) :
                      /\ IsSynthetic(packed[i])
                      /\ packed[i].item_type = cargo_requests[1].item_type
                      /\ packed[i].priority = cargo_requests[1].priority

\* the plan returned for the single request at a priority below 8
C8_Witness ==
    /\ Done
    /\ cargo_requests[1].priority < 8
    /\ stats.items_packed = 1
    /\ packed[1].position = CornerCentre

Oversize(r) ==
    r.length > max_length \/ r.width > max_width \/ r.height > max_height

\* C9: a request with a dimension above the container's fails the dimension
\* check whenever it is tried, in every pass and as a top-off candidate, is
\* never packed, and ends in unpacked.
C9_OversizeNeverPacked ==
    /\ \A i \in 1..Len(items_by_priority) :
          Oversize(items_by_priority[i]) =>
              /\ ~FitsConstraints(items_by_priority[i])
              /\ i \notin packed_items_set
    /\ \A k \in 1..Len(high_priorities) :
          \A t \in TypesAt(high_priorities[k]) :
              Oversize(ITEM_PRESETS[t]) =>
                  ~FitsConstraints(Request(0, t, high_priorities[k]))
    /\ \A i \in 1..Len(packed) : ~Oversize(packed[i])
    /\ Done => \A r \in PoolSet : Oversize(r) => TimesUnpacked(r) = 1

\* a returned plan with an oversize request unpacked, another request packed,
\* after a top-off that ran with the oversize type among its candidates
C9_Witness ==
    /\ Done
    /\ TopOffRan
    /\ packed # <<>>
    /\ \E i \in 1..Len(unpacked) :
          /\ Oversize(unpacked[i])
          /\ unpacked[i].priority >= 8
          /\ unpacked[i].weight + current_weight <= max_weight

Degenerate ==
    \/ max_weight <= 0
    \/ MaxVolume <= 0
    \/ max_length <= 0 \/ max_width <= 0 \/ max_height <= 0

\* C10: for a container with max_weight <= 0 or a dimension <= 0 nothing is
\* ever packed, no synthetic item is added, every request is returned in
\* unpacked, and both utilizations are reported as 0.
C10_DegenerateContainer ==
    Degenerate =>
        /\ packed = <<>>
        /\ Done =>
              /\ Len(unpacked) = Len(cargo_requests)
              /\ \A r \in PoolSet : TimesUnpacked(r) = 1
              /\ stats.items_packed = 0
              /\ stats.items_unpacked = Len(cargo_requests)
              /\ stats.weight_utilization = 0
              /\ stats.volume_utilization = 0

\* a returned plan for a container of zero volume after top-off has run
C10_Witness ==
    /\ Done
    /\ MaxVolume = 0
    /\ max_weight > 0
    /\ TopOffRan
    /\ Len(unpacked) = MaxReq

Origin == [x |-> 0, y |-> 0, z |-> 0]

\* C11: for an empty pool nothing is ever packed and top-off never runs, and
\* the returned plan has packed = [], unpacked = [], balance_score = 100,
\* center_of_gravity = (0, 0, 0) and left_weight = right_weight = 0.
C11_ZeroRequests ==
    cargo_requests = <<>> =>
        /\ packed = <<>>
        /\ attempts = 0
        /\ pc \notin {"topoff_while", "topoff_for"}
        /\ Done =>
              /\ unpacked = <<>>
              /\ stats.balance_score = 1000
              /\ stats.center_of_gravity = Origin
              /\ stats.left_weight = 0
              /\ stats.right_weight = 0
              /\ stats.items_packed = 0
              /\ stats.items_unpacked = 0

\* the plan returned for the empty pool and a container with room
C11_Witness ==
    /\ Done
    /\ cargo_requests = <<>>
    /\ max_weight > 0
    /\ MaxVolume > 0
    /\ stats.balance_score = 1000

\* the call has returned metrics for a known aircraft
FuelReturned == returned # None /\ returned[1] # None

\* 100 w / u compared with b percent of the aircraft's max_weight
UtilizationAtLeast(b) ==
    100 * args[2] >= b * AIRCRAFT_PRESETS[args[1]].max_weight * args[3]

UtilizationAtMost(b) ==
    100 * args[2] <= b * AIRCRAFT_PRESETS[args[1]].max_weight * args[3]

\* C12: the rating is "Optimal" iff 75 <= capacity_utilization <= 85, "Good"
\* iff capacity_utilization > 85, "Moderate" iff 60 <= capacity_utilization
\* < 75 and "Low" iff capacity_utilization < 60, with capacity_utilization =
\* cargo_weight / max_weight * 100 unrounded; exactly one rating applies.
C12_FuelRatingBoundaries ==
    FuelReturned =>
        LET rating == returned[1].efficiency_rating
        IN  /\ rating \in {"Optimal", "Good", "Moderate", "Low"}
            /\ rating = "Optimal" <=> (UtilizationAtLeast(75) /\ UtilizationAtMost(85))
            /\ rating = "Good" <=> ~UtilizationAtMost(85)
            /\ rating = "Moderate" <=> (UtilizationAtLeast(60) /\ ~UtilizationAtLeast(75))
            /\ rating = "Low" <=> ~UtilizationAtLeast(60)

\* the four boundary cases have been rated: exactly 85 % "Optimal" here;
\* 75 %, 85.0001 % and 59.999 % are the other reachable calls
C12_Witness ==
    /\ FuelReturned
    /\ args = <<"UH-60 Black Hawk", 1020, 1>>
    /\ returned[1].efficiency_rating = "Optimal"
    /\ returned[1].capacity_utilization = 850

\* C13: no step of an optimize call changes the request pool (same requests,
\* same order, same fields, no position field) or the request counter.
C13_PoolUnchanged ==
    [][cargo_requests' = cargo_requests /\ request_counter' = request_counter]_vars

\* a returned plan in which a request of the pool is packed with a position
\* while the pool's own entry has none, and a synthetic item was added
C13_Witness ==
    /\ Done
    /\ \E i \in 1..Len(packed) : IsSynthetic(packed[i])
    /\ \E i \in 1..Len(packed) : \E j \in 1..Len(cargo_requests) :
          /\ cargo_requests[j] = WithoutPosition(packed[i])
          /\ "position" \notin DOMAIN cargo_requests[j]
          /\ request_counter = Len(cargo_requests)

\* C14: the ids of the requests in the pool are pairwise distinct and
\* strictly increasing in pool order, after any submissions and clears.
C14_IdsIncreasing ==
    \A i, j \in 1..Len(cargo_requests) :
        i < j => cargo_requests[i].id < cargo_requests[j].id

\* a pool holding the requests of two submissions of different kinds, the
\* second one numbered on from the first
C14_Witness ==
    /\ Len(cargo_requests) = 9
    /\ cargo_requests[1].priority = 2
    /\ cargo_requests[7].priority = 1
    /\ cargo_requests[7].item_type # cargo_requests[1].item_type
    /\ cargo_requests[7].id = 7
    /\ request_counter = 9

\* the open intervals (a, a + la) and (b, b + lb) have a common point
OpenIntervalsMeet(a, la, b, lb) ==
    \E lo \in {a, b} : \E hi \in {a + la, b + lb} :
        /\ lo >= a /\ lo >= b
        /\ hi <= a + la /\ hi <= b + lb
        /\ lo < hi

\* on axis k (1, 2, 3) one box ends exactly where the other starts
TouchOnAxis(p, q, k) == p[k] + p[k + 3] = q[k] \/ q[k] + q[k + 3] = p[k]

\* C15: for boxes of positive extents overlaps(A, B) is true iff the open
\* intervals of A and B intersect on all three axes, it is false whenever on
\* some axis one box's max equals the other's min, and overlaps(A, B) =
\* overlaps(B, A).
C15_OverlapSymmetricOpen ==
    returned # None =>
        LET A == args[1]
            B == args[2]
        IN  /\ returned[1] <=>
                  \A k \in 1..3 : OpenIntervalsMeet(A[k], A[k + 3], B[k], B[k + 3])
            /\ (\E k \in 1..3 : TouchOnAxis(A, B, k)) => ~returned[1]
            /\ returned[1] = returned[2]

\* two boxes in contact on the x axis whose y and z intervals intersect were
\* compared both ways and reported as not overlapping
C15_Witness ==
    /\ returned = <<FALSE, FALSE>>
    /\ args[1][1] + args[1][4] = args[2][1]
    /\ \A k \in 2..3 :
          OpenIntervalsMeet(args[1][k], args[1][k + 3], args[2][k], args[2][k + 3])

\* the accumulated weight after the first k placements
PrefixWeight(k) == SumSeq([i \in 1..k |-> packed[i].weight])

InBandWeight(wt) == wt * 100 >= max_weight * 75 /\ wt * 100 <= max_weight * 85

AboveBandWeight(wt) == wt * 100 > max_weight * 85

\* the accumulated weight was in the optimal band before placement k
EnteredBandBefore(k) == \E j \in 0..(k - 1) : InBandWeight(PrefixWeight(j))

\* C16 as stated: once the accumulated weight has been in
\* [0.75, 0.85] * max_weight, no request of priority < 8 is packed by the
\* admission passes if packing it leaves the weight above 0.85 * max_weight.
C16_BandGuard ==
    \A k \in 1..Len(packed) :
        (/\ ~IsSynthetic(packed[k])
         /\ packed[k].priority < 8
         /\ AboveBandWeight(PrefixWeight(k)))
            => ~EnteredBandBefore(k)

AtEndOfPass == pc = "pass" /\ idx > Len(items_by_priority)

SomeUnpacked == \E i \in 1..Len(items_by_priority) : i \notin packed_items_set

UnpackedCritical ==
    \E i \in 1..Len(items_by_priority) :
        i \notin packed_items_set /\ items_by_priority[i].priority >= 9

\* C17 as stated: at the end of a pass with index >= 3, if the accumulated
\* weight has been in the optimal band and no unpacked request has priority
\* >= 9, the admission loop stops there (stated for the case where a request
\* is still unpacked, so that a further pass has something to attempt).
C17_EarlyExit ==
    [][(/\ AtEndOfPass
        /\ pass_num >= 3
        /\ EnteredBandBefore(Len(packed) + 1)
        /\ ~UnpackedCritical
        /\ SomeUnpacked) => pc' = "collect"]_vars

PriorityAt(i) == items_by_priority[i].priority

\* C18: a request is attempted, and so packed, only in a pass p with
\* priority >= 10 - p, and when a request has had an attempt every request
\* of a higher priority has had one too.
C18_PassOrder ==
    /\ \A i \in attempted : PriorityAt(i) >= 10 - pass_num
    /\ packed_items_set \subseteq attempted
    /\ \A j \in attempted : \A i \in 1..Len(items_by_priority) :
          PriorityAt(i) > PriorityAt(j) => i \in attempted

\* pass 7 with a priority-3 request attempted after a priority-10 request
\* that was attempted and is still unpacked, and a request not yet attempted
C18_Witness ==
    /\ pc = "pass"
    /\ pass_num = 7
    /\ \E i, j \in attempted :
          /\ PriorityAt(i) = 10 /\ i \notin packed_items_set
          /\ PriorityAt(j) = 3
    /\ \E i \in 1..Len(items_by_priority) : i \notin attempted

\* the weight the admission passes accumulated: that of the original items
AdmissionWeight ==
    SumSeq([i \in 1..Len(packed) |->
               IF IsSynthetic(packed[i]) THEN 0 ELSE packed[i].weight])

BelowTarget(wt) == wt * 100 < max_weight * 75

\* C19: a synthetic item is in the plan only if the admission passes ended
\* below 0.75 * max_weight and some original request has priority >= 8, and
\* each synthetic item was added while the weight was below 0.75 * max_weight.
C19_TopOffGating ==
    \A k \in 1..Len(packed) :
        IsSynthetic(packed[k]) =>
            /\ BelowTarget(AdmissionWeight)
            /\ \E i \in 1..Len(cargo_requests) : cargo_requests[i].priority >= 8
            /\ BelowTarget(PrefixWeight(k - 1))

\* a returned plan that top-off brought from below the target to it or past
\* it, the last synthetic item added just below the target
C19_Witness ==
    /\ Done
    /\ Len(packed) >= 3
    /\ IsSynthetic(packed[Len(packed)])
    /\ IsSynthetic(packed[Len(packed) - 1])
    /\ ~BelowTarget(current_weight)
    /\ AdmissionWeight > 0

\* C20 as stated: the id of a synthetic item differs from the id of every
\* other packed item and of every request of the snapshot.
C20_FreshIds ==
    \A i \in 1..Len(packed) :
        IsSynthetic(packed[i]) =>
            /\ \A j \in 1..Len(packed) : j # i => packed[j].id # packed[i].id
            /\ \A j \in 1..Len(cargo_requests) :
                  cargo_requests[j].id # packed[i].id

\* the candidate's box from the origin of position r stays inside the
\* quadrant <<rear, right>>: between the walls and midplanes bounding it
WithinQuadrant(item, r, rear, right) ==
    LET x_start == IF rear = 1 THEN max_length \div 2 ELSE 0
        x_end == IF rear = 1 THEN max_length ELSE max_length \div 2
        y_start == IF right = 1 THEN max_width \div 2 ELSE 0
        y_end == IF right = 1 THEN max_width ELSE max_width \div 2
    IN  /\ x_start <= r.x - item.length \div 2
        /\ r.x + item.length \div 2 <= x_end
        /\ y_start <= r.y - item.width \div 2
        /\ r.y + item.width \div 2 <= y_end
        /\ r.z + item.height \div 2 <= max_height

\* the candidate of the current iteration of a pass
AtCandidate == pc = "pass" /\ idx <= Len(items_by_priority)

\* C21 as stated: the origin the grid search of a quadrant accepts for the
\* candidate leaves the candidate's box inside that quadrant (not past its
\* midplanes or walls) and under the container ceiling.
C21_QuadrantConfinement ==
    AtCandidate =>
        \A q \in 1..Len(QuadrantKeys) :
            LET r == SearchQuadrant(packed, items_by_priority[idx], max_length,
                                    max_width, max_height,
                                    QuadrantKeys[q][1], QuadrantKeys[q][2])
            IN  r # None =>
                    WithinQuadrant(items_by_priority[idx], r[1],
                                   QuadrantKeys[q][1], QuadrantKeys[q][2])

\* the candidate of the current top-off iteration
AtTopOffCandidate ==
    /\ pc = "topoff_for"
    /\ tier <= Len(high_priorities)
    /\ ~AtLeastOptimalMin(current_weight)

AtSearch == AtCandidate \/ AtTopOffCandidate

Candidate ==
    IF pc = "pass" THEN items_by_priority[idx]
    ELSE NewItem(high_priorities[tier], attempts)

\* the grid points from, from + step, ... that leave a whole step before to
GridAxis(from, to) == {v \in from..(to - step) : (v - from) % step = 0}

\* the grid origins <<x, y, z>> of quadrant <<rear, right>>
QuadrantOrigins(rear, right) ==
    GridAxis(IF rear = 1 THEN max_length \div 2 ELSE 0,
             IF rear = 1 THEN max_length ELSE max_length \div 2)
        \X GridAxis(IF right = 1 THEN max_width \div 2 ELSE 0,
                    IF right = 1 THEN max_width ELSE max_width \div 2)
        \X GridAxis(0, max_height)

CentreFrom(item, o) ==
    [x |-> o[1] + item.length \div 2,
     y |-> o[2] + item.width \div 2,
     z |-> o[3] + item.height \div 2]

\* origin o is admissible for the item: its box stays inside the container
\* and its interior meets the interior of no packed box
Admissible(item, o) ==
    /\ o[1] + item.length <= max_length
    /\ o[2] + item.width <= max_width
    /\ o[3] + item.height <= max_height
    /\ \A i \in 1..Len(packed) :
          ~StrictlyIntersect(WithPosition(item, CentreFrom(item, o)), packed[i])

\* scan order inside a quadrant: z ascending, then y (ascending on the left,
\* descending on the right), then x ascending
ScanBefore(a, b, right) ==
    \/ a[3] < b[3]
    \/ a[3] = b[3] /\ (IF right = 1 THEN a[2] > b[2] ELSE a[2] < b[2])
    \/ a[3] = b[3] /\ a[2] = b[2] /\ a[1] < b[1]

\* the first admissible origin, in scan order, of the first quadrant, in
\* visit order, that has one; as <<centre>>, or None when no quadrant has one
FirstFit(item) ==
    LET order == TargetQuadrants(front_left_weight, front_right_weight,
                                 rear_left_weight, rear_right_weight)
        Adm(k) == {o \in QuadrantOrigins(order[k][1], order[k][2]) :
                      Admissible(item, o)}
        open == {k \in 1..Len(order) : Adm(k) # {}}
    IN  IF open = {} THEN None
        ELSE LET k == CHOOSE m \in open : \A n \in open : m <= n
                 o == CHOOSE a \in Adm(k) :
                        \A b \in Adm(k) \ {a} : ScanBefore(a, b, order[k][2])
             IN  <<CentreFrom(item, o)>>

Found(item) ==
    find_balanced_position(packed, item, max_length, max_width, max_height,
                           front_left_weight, front_right_weight,
                           rear_left_weight, rear_right_weight)

\* C22: for every candidate of an admission pass or of top-off the placement
\* search returns the centre of the first admissible grid origin, in scan
\* order (z ascending, then y ascending on the left and descending on the
\* right, then x ascending), of the first quadrant in visit order that has
\* an admissible origin (on the 0.2 m grid, box inside the container,
\* overlapping no packed box), and NONE iff no quadrant has one.
C22_GreedyFirstFit ==
    AtSearch =>
        /\ Found(Candidate) = FirstFit(Candidate)
        /\ Found(Candidate) = None <=>
              \A q \in 1..Len(QuadrantKeys) :
                  \A o \in QuadrantOrigins(QuadrantKeys[q][1], QuadrantKeys[q][2]) :
                      ~Admissible(Candidate, o)

\* the search passed over the first quadrant in visit order, which has no
\* admissible origin left, and took from a right-hand quadrant, out of
\* several admissible origins, one on the upper grid level in the outer row
C22_Witness ==
    /\ AtSearch
    /\ Found(Candidate) # None
    /\ LET order == TargetQuadrants(front_left_weight, front_right_weight,
                                    rear_left_weight, rear_right_weight)
           r == Found(Candidate)[1]
       IN  /\ \A o \in QuadrantOrigins(order[1][1], order[1][2]) :
                 ~Admissible(Candidate, o)
           /\ 2 * (r.y - Candidate.width \div 2) >= max_width
           /\ r.z - Candidate.height \div 2 = step
           /\ r.y - Candidate.width \div 2 > max_width \div 2
           /\ \E q \in 1..Len(QuadrantKeys) :
                 Cardinality({o \in QuadrantOrigins(QuadrantKeys[q][1],
                                                    QuadrantKeys[q][2]) :
                                 Admissible(Candidate, o)}) >= 2

\* the accumulator of quadrant <<rear, right>>
QuadrantWeight(q) ==
    CASE q = <<0, 0>> -> front_left_weight
      [] q = <<0, 1>> -> front_right_weight
      [] q = <<1, 0>> -> rear_left_weight
      [] q = <<1, 1>> -> rear_right_weight

\* the place of a quadrant in front-left, front-right, rear-left, rear-right
FixedPlace(q) == CHOOSE k \in 1..Len(QuadrantKeys) : QuadrantKeys[k] = q

VisitOrder ==
    TargetQuadrants(front_left_weight, front_right_weight,
                    rear_left_weight, rear_right_weight)

TotalQuadrantWeight ==
    front_left_weight + front_right_weight + rear_left_weight + rear_right_weight

\* C23: the quadrant visit order of every search holds each of the four
\* quadrants once; it is front-left, front-right, rear-left, rear-right when
\* the accumulated weights sum to zero, and otherwise ascending in
\* accumulated weight, quadrants of equal weight in that fixed order.
C23_VisitOrder ==
    AtSearch =>
        /\ Len(VisitOrder) = 4
        /\ \A k \in 1..Len(QuadrantKeys) :
              \E m \in 1..Len(VisitOrder) : VisitOrder[m] = QuadrantKeys[k]
        /\ TotalQuadrantWeight = 0 => VisitOrder = QuadrantKeys
        /\ TotalQuadrantWeight # 0 =>
              \A m, n \in 1..Len(VisitOrder) :
                  m < n =>
                      \/ QuadrantWeight(VisitOrder[m]) < QuadrantWeight(VisitOrder[n])
                      \/ /\ QuadrantWeight(VisitOrder[m]) = QuadrantWeight(VisitOrder[n])
                         /\ FixedPlace(VisitOrder[m]) < FixedPlace(VisitOrder[n])

\* a search with loaded quadrants: two of equal weight, the front-right
\* quadrant visited ahead of the front-left one, the rear-right one last
C23_Witness ==
    /\ AtSearch
    /\ front_left_weight > front_right_weight
    /\ front_right_weight > 0
    /\ rear_left_weight = front_right_weight
    /\ rear_right_weight > front_left_weight
    /\ VisitOrder = << <<0, 1>>, <<1, 0>>, <<0, 0>>, <<1, 1>> >>

\* the centre of packed item p falls into quadrant <<rear, right>>:
\* front iff x < max_length / 2, left iff y < max_width / 2
CentreInQuadrant(p, q) ==
    /\ q[1] = 0 <=> 2 * p.position.x < max_length
    /\ q[2] = 0 <=> 2 * p.position.y < max_width

\* the weight of the packed items whose centre falls into quadrant q
WeightIn(q) ==
    SumSeq([i \in 1..Len(packed) |->
               IF CentreInQuadrant(packed[i], q) THEN packed[i].weight ELSE 0])

\* C24: after every placement, by an admission pass or by top-off, each
\* quadrant accumulator holds the weight of the packed items whose position
\* centre falls into that quadrant (front iff x < max_length / 2, left iff
\* y < max_width / 2), so the four sum to the packed weight; and the
\* reported left_weight + right_weight equals total_weight.
C24_QuadrantBookkeeping ==
    /\ \A k \in 1..Len(QuadrantKeys) :
          QuadrantWeight(QuadrantKeys[k]) = WeightIn(QuadrantKeys[k])
    /\ TotalQuadrantWeight = PackedWeight
    /\ Done =>
          /\ stats.left_weight = WeightIn(<<0, 0>>) + WeightIn(<<1, 0>>)
          /\ stats.right_weight = WeightIn(<<0, 1>>) + WeightIn(<<1, 1>>)
          /\ stats.left_weight + stats.right_weight = stats.total_weight

\* a returned plan with an original and a synthetic item whose centres lie
\* exactly on the length midplane: both count as rear, one left, one right
C24_Witness ==
    /\ Done
    /\ Len(packed) = 2
    /\ ~IsSynthetic(packed[1])
    /\ IsSynthetic(packed[2])
    /\ 2 * packed[1].position.x = max_length
    /\ 2 * packed[2].position.x = max_length
    /\ front_left_weight = 0
    /\ front_right_weight = 0
    /\ rear_left_weight = packed[1].weight
    /\ rear_right_weight = packed[2].weight
    /\ stats.left_weight > 0

\* the place of request r in the pool
PoolPlace(r) == CHOOSE j \in 1..Len(cargo_requests) : cargo_requests[j] = r

\* a comes before b: priority descending, then weight descending, then
\* original pool order
OrderedBefore(a, b) ==
    \/ a.priority > b.priority
    \/ a.priority = b.priority /\ a.weight > b.weight
    \/ a.priority = b.priority /\ a.weight = b.weight /\ PoolPlace(a) < PoolPlace(b)

\* <<pass, index>> pairs in lexicographic order
PassThenIndex(a, b) == a[1] < b[1] \/ (a[1] = b[1] /\ a[2] < b[2])

OriginalsPacked == Cardinality({i \in 1..Len(packed) : ~IsSynthetic(packed[i])})

\* C25: the admission candidates are the pool's requests ordered by priority
\* descending, then weight descending, then pool order; in a pass the
\* requests first eligible in it are attempted in that order (those before
\* the loop index have been attempted, those from it on have not); and the
\* original requests stand in packed in the order of (pass of admission,
\* place in that order).
C25_SortOrder ==
    pc # "idle" =>
        /\ Len(items_by_priority) = Len(cargo_requests)
        /\ \A r \in PoolSet :
              \E i \in 1..Len(items_by_priority) : items_by_priority[i] = r
        /\ \A i, j \in 1..Len(items_by_priority) :
              i < j => OrderedBefore(items_by_priority[i], items_by_priority[j])
        /\ pc = "pass" =>
              \A i \in 1..Len(items_by_priority) :
                  PriorityAt(i) = 10 - pass_num => (i \in attempted <=> i < idx)
        /\ Len(admitted_at) = OriginalsPacked
        /\ \A k \in 1..Len(admitted_at) :
              WithoutPosition(packed[k]) = items_by_priority[admitted_at[k][2]]
        /\ \A k, m \in 1..Len(admitted_at) :
              k < m => PassThenIndex(admitted_at[k], admitted_at[m])

\* a returned plan for a pool that the sort reordered: two requests equal in
\* priority and weight admitted in one pass in pool order, then a request of
\* lower priority in a later pass
C25_Witness ==
    /\ Done
    /\ Len(admitted_at) = 3
    /\ admitted_at[1][1] = admitted_at[2][1]
    /\ packed[1].priority = packed[2].priority
    /\ packed[1].weight = packed[2].weight
    /\ packed[1].id < packed[2].id
    /\ admitted_at[3][1] > admitted_at[2][1]
    /\ packed[3].id < packed[1].id

\* the top-off attempt that synthesized packed item p
AttemptOf(p) == p.id - synthetic_id_base

\* C26: every synthetic item has a priority in {8, 9, 10} that occurs in the
\* pool and an item type that a request of that priority has; the synthetic
\* items of one top-off attempt stand in packed in strictly descending
\* priority (tiers visited in descending order, at most one item per tier);
\* and the type of each is the one at index (attempt mod number of distinct
\* types at its tier) of that tier's list of distinct types.
C26_SyntheticTierAndType ==
    /\ \A i \in 1..Len(packed) :
          IsSynthetic(packed[i]) =>
              /\ packed[i].priority \in {8, 9, 10}
              /\ \E j \in 1..Len(cargo_requests) :
                    /\ cargo_requests[j].priority = packed[i].priority
                    /\ cargo_requests[j].item_type = packed[i].item_type
              /\ LET types == UniqueTypesIn(set_order, packed[i].priority)
                 IN  /\ Len(types) = Cardinality(TypesAt(packed[i].priority))
                     /\ packed[i].item_type =
                           types[(AttemptOf(packed[i]) % Len(types)) + 1]
    /\ \A i, j \in 1..Len(packed) :
          (/\ i < j
           /\ IsSynthetic(packed[i])
           /\ IsSynthetic(packed[j])
           /\ AttemptOf(packed[i]) = AttemptOf(packed[j]))
              => packed[i].priority > packed[j].priority

\* a returned plan in which two consecutive top-off attempts synthesized
\* items of different types at one tier that holds two distinct types
C26_Witness ==
    /\ Done
    /\ \E i, k \in 1..Len(packed) :
          /\ IsSynthetic(packed[i])
          /\ IsSynthetic(packed[k])
          /\ AttemptOf(packed[k]) = AttemptOf(packed[i]) + 1
          /\ packed[k].priority = packed[i].priority
          /\ packed[k].item_type # packed[i].item_type
          /\ Cardinality(TypesAt(packed[i].priority)) = 2

\* the loop bounds: the pass index stays below 10, top-off makes at most
\* max_topoff_attempts attempts, goes back to the loop head only after an
\* attempt that added an item, and synthesizes nothing once the weight has
\* reached 0.75 * max_weight
LoopBounds ==
    /\ pass_num \in 0..9
    /\ idx \in 1..(Len(items_by_priority) + 1)
    /\ attempts \in 0..max_topoff_attempts
    /\ (pc = "topoff_while" /\ attempts > 0) => added_something
    /\ (pc = "topoff_for" /\ AtLeastOptimalMin(current_weight)) =>
          tier > Len(high_priorities)
    /\ pc = "topoff_for" => attempts <= Len(packed) + 1

\* the steps one top-off attempt can take: the loop head, one per tier, and
\* the end of the for loop
AttemptSteps == Len(high_priorities) + 3

\* a bound on the steps left before the call returns
StepsLeft ==
    LET n == Len(cargo_requests)
        from_collect == max_topoff_attempts * AttemptSteps + 3
        of_attempts == (max_topoff_attempts - attempts) * AttemptSteps + 2
    IN  CASE pc = "idle" -> from_collect + 10 * (n + 1) + 2
          [] pc = "pass" ->
                from_collect + 1 + (9 - pass_num) * (n + 1) + (n + 1 - idx)
          [] pc = "collect" -> from_collect
          [] pc = "topoff_while" -> of_attempts
          [] pc = "topoff_for" ->
                of_attempts + (Len(high_priorities) + 2 - tier)
          [] pc = "summarize" -> 1
          [] pc = "done" -> 0

\* C27: every optimize call returns: each step of the call lowers a bound on
\* the steps left that is never negative and is zero only at the return;
\* the admission loop makes at most 10 passes over the list, and top-off
\* makes at most 1000 attempts and stops as soon as an attempt adds no item
\* or the weight reaches 0.75 * max_weight.
C27_Termination ==
    /\ [](LoopBounds /\ StepsLeft >= 0 /\ (StepsLeft = 0 <=> Done))
    /\ [][StepsLeft' < StepsLeft]_vars

\* a returned plan after ten passes and a top-off that stopped on an
\* attempt that added nothing, below 0.75 * max_weight
C27_Witness ==
    /\ Done
    /\ pass_num = 9
    /\ attempts > 1
    /\ ~added_something
    /\ ~AtLeastOptimalMin(current_weight)
    /\ packed # <<>>

\* the state a single pass carries from one candidate to the next
EmptyLoad == [packed |-> <<>>, weight |-> 0, volume |-> 0,
              fl |-> 0, fr |-> 0, rl |-> 0, rr |-> 0]

\* one attempt of a single pass: band guard, capacity and dimension checks,
\* placement search, placement and quadrant bookkeeping
SingleAttempt(load, item) ==
    LET in_band == /\ load.weight * 100 >= max_weight * 75
                   /\ load.weight * 100 <= max_weight * 85
        skipped == /\ in_band
                   /\ (load.weight + item.weight) * 100 > max_weight * 85
                   /\ item.priority < 8
        fits == /\ load.weight + item.weight <= max_weight
                /\ load.volume + Volume(item) <= MaxVolume
                /\ item.length <= max_length
                /\ item.width <= max_width
                /\ item.height <= max_height
        found == IF ~skipped /\ fits
                 THEN find_balanced_position(load.packed, item, max_length,
                                             max_width, max_height,
                                             load.fl, load.fr, load.rl, load.rr)
                 ELSE None
    IN  IF found = None THEN load
        ELSE LET pos == found[1]
                 front == 2 * pos.x < max_length
                 left == 2 * pos.y < max_width
             IN  [packed |-> Append(load.packed, WithPosition(item, pos)),
                  weight |-> load.weight + item.weight,
                  volume |-> load.volume + Volume(item),
                  fl |-> load.fl + (IF front /\ left THEN item.weight ELSE 0),
                  fr |-> load.fr + (IF front /\ ~left THEN item.weight ELSE 0),
                  rl |-> load.rl + (IF ~front /\ left THEN item.weight ELSE 0),
                  rr |-> load.rr + (IF ~front /\ ~left THEN item.weight ELSE 0)]

\* a single pass over a list of candidates, each attempted once, in order
RECURSIVE SinglePass(_, _)
SinglePass(items, load) ==
    IF items = <<>> THEN load
    ELSE SinglePass(Tail(items), SingleAttempt(load, Head(items)))

\* how many candidates have had their first attempt: those first eligible in
\* an earlier pass, and in the current pass those before the loop index
FirstAttempts ==
    Cardinality({i \in 1..Len(items_by_priority) :
        \/ PriorityAt(i) > 10 - pass_num
        \/ PriorityAt(i) = 10 - pass_num /\ (pc # "pass" \/ i < idx)})

\* C28: every packed original request is packed in pass 10 - its priority
\* (a request whose first attempt failed or was skipped by the band guard is
\* not packed by a later pass), and at every point of the admission loop and
\* after it the original requests in packed, with their positions, are those
\* of a single pass over the sorted list up to the last candidate that has
\* had a first attempt (the early-exit point once the loop has ended).
C28_RetriesNeverSucceed ==
    pc # "idle" =>
        /\ \A k \in 1..Len(admitted_at) :
              admitted_at[k][1] = 10 - PriorityAt(admitted_at[k][2])
        /\ SubSeq(packed, 1, Len(admitted_at))
              = SinglePass(SubSeq(items_by_priority, 1, FirstAttempts),
                           EmptyLoad).packed

\* pass 8 or 9 after the retries of two requests: one of priority 10 that
\* did not fit on its first attempt and one of priority 3 that the band
\* guard skipped in pass 7 and skips again, both still unpacked, next to a
\* packed request
C28_Witness ==
    /\ pc = "pass"
    /\ pass_num >= 8
    /\ idx > Len(items_by_priority)
    /\ packed # <<>>
    /\ \E i, j \in attempted :
          /\ PriorityAt(i) = 10
          /\ i \notin packed_items_set
          /\ PriorityAt(j) = 3
          /\ j \notin packed_items_set
          /\ BandGuardSkips(items_by_priority[j])

\* C29 as stated: in the returned plan the fuel capacity_utilization equals
\* the stats weight_utilization up to rounding (one in tenths, the other in
\* hundredths of a percent), and the efficiency rating is "Optimal" exactly
\* when the packed weight lies in [0.75, 0.85] * max_weight of the call's
\* container.
C29_FuelAgreesWithStats ==
    Done =>
        /\ Abs(10 * fuel_metrics.capacity_utilization - stats.weight_utilization) <= 5
        /\ fuel_metrics.efficiency_rating = "Optimal"
              <=> InBandWeight(stats.total_weight)

-----------------------------------------------------------------------------
\* C30: when two submissions are handled concurrently, with the read, the
\* increment and write of request_counter and the append of each request
\* interleaved between the two handlers, all requests in the pool still have
\* pairwise distinct ids.
C30_DistinctIdsConcurrent ==
    \A i, j \in 1..Len(cargo_requests) :
        i # j => cargo_requests[i].id # cargo_requests[j].id

=============================================================================
